---- MODULE Spec2Model ----
(***************************************************************************)
(* rtapi: real-time API latency analyzer (src/rtapi.go).                   *)
(*                                                                         *)
(* Three specifications share this module:                                 *)
(*   Spec         one invocation of the command line action (main): flag   *)
(*                checks, input parsing, the run loop over the endpoints,  *)
(*                the report emitters and the background progress bar;     *)
(*   SpecResolve  one endpoint input record through the decoder            *)
(*                (UnmarshalJSON / UnmarshalYAML), the duration check of   *)
(*                main and the hand-over to queryAPI;                      *)
(*   SpecGraph    the row loop of createGraph over one engine output.      *)
(***************************************************************************)
EXTENDS Integers, Sequences, FiniteSets, TLC

\* ------------------------------------------------------------------ bounds
MaxEndpoints == 2

MaxRows == 3

\* ------------------------------------------------------- program constants
\* showProgressBar: uiprogress.AddBar(sum * 10)
TicksPerSecond == 10

\* createGraph: if len(values) == 4
RowFields == 4

\* --------------------------------------------------------------- variables
VARIABLES
    \* ---- main (Spec)
    flags,          \* the command line: flag name -> "unset" or its value
    pc,             \* position of main
    endpointList,   \* []endpointDetails
    splunkSettings, \* splunkSettings
    sum,            \* sum of the durations, in milliseconds
    i,              \* index of the run loop (1-based)
    k,              \* index of the forwarding loop (1-based)
    exit,           \* "none", "ok" (return nil), "fatal" (log.Fatal), "panic"
    cause,          \* why the process ended
    \* ---- what main did to the outside (observation of its calls)
    runLog,         \* URLs queryAPI was invoked with, in call order
    running,        \* endpoints whose attack is in progress
    engineFailed,   \* endpoints whose requests the engine could not deliver
    emitLog,        \* emitters that were started, in call order
    sent,           \* forwarding POSTs that reached the sink: [idx, status]
    ioFailure,      \* run-time I/O failure met by an emitter, "none" if none
    parsed,         \* the flags whose file or string went through a parser
    \* ---- showProgressBar goroutine
    tpc,            \* "off", "start", "loop", "done"
    barTotal,       \* progressBar.Total
    barCurrent,     \* progressBar current
    \* ---- SpecResolve
    rpc, rawRecord, encoding, resolved, handed,
    \* ---- SpecGraph
    gpc, report, stringArray, points, j, written

mainVars == <<flags, pc, endpointList, splunkSettings, sum, i, k, exit, cause,
              runLog, running, engineFailed, emitLog, sent, ioFailure, parsed>>
tickerVars == <<tpc, barTotal, barCurrent>>
resolveVars == <<rpc, rawRecord, encoding, resolved, handed>>
graphVars == <<gpc, report, stringArray, points, j, written>>
vars == <<mainVars, tickerVars, resolveVars, graphVars>>

\* ------------------------------------------------------------ basic helpers
\* float64 -> int conversion truncates toward zero; ms is milliseconds
IntSeconds(ms) == IF ms >= 0 THEN ms \div 1000 ELSE -((-ms) \div 1000)

\* ---------------------------------------------------------------- the flags
\* c.IsSet(name)
IsSet(name) == flags[name] # "unset"

\* c.Bool(name)
Bool(name) == flags[name] = "true"

\* c.String(name)
String(name) == IF flags[name] = "unset" THEN "" ELSE flags[name]

\* filepath.Ext over the paths the model uses
Ext(path) ==
    CASE path \in {"in.json", "hec.json"} -> ".json"
      [] path \in {"in.yml", "hec.yml"}   -> ".yml"
      [] path \in {"in.yaml", "hec.yaml"} -> ".yaml"
      [] path \in {"in.txt", "hec.txt"}   -> ".txt"
      [] OTHER                            -> ""

FilePaths == {"in.json", "in.yaml", "in.txt"}
SplunkPaths == {"", "hec.json", "hec.yml", "hec.txt"}

Invocations ==
    [file   : {"unset"} \cup FilePaths,
     data   : {"unset", "inline"},
     output : {"unset", "out.pdf"},
     print  : {"unset", "true"},
     json   : {"unset", "true", "false"},
     splunk : {"unset"} \cup SplunkPaths,
     quiet  : {"unset", "true"}]

\* ------------------------------------------------------- time.ParseDuration
\* over the duration strings the model uses; ms is milliseconds
ParseDuration(s) ==
    CASE s = "10s"   -> [err |-> FALSE, ms |-> 10000]
      [] s = "1s"    -> [err |-> FALSE, ms |-> 1000]
      [] s = "500ms" -> [err |-> FALSE, ms |-> 500]
      [] s = "0s"    -> [err |-> FALSE, ms |-> 0]
      [] s = "-1s"   -> [err |-> FALSE, ms |-> -1000]
      [] OTHER       -> [err |-> TRUE,  ms |-> 0]

\* --------------------------------------------------- Configuration Resolver
QueryKeys == {"threads", "max_threads", "connections", "duration", "request_rate"}

\* the struct tags of endpointQuery: input key -> field
FieldOf ==
    [key \in QueryKeys |->
        CASE key = "threads"      -> "Threads"
          [] key = "max_threads"  -> "MaxThreads"
          [] key = "connections"  -> "Connections"
          [] key = "duration"     -> "Duration"
          [] key = "request_rate" -> "RequestRate"]

\* the endpointQuery literal of UnmarshalJSON / UnmarshalYAML
DefaultQuery ==
    [Threads |-> 2, MaxThreads |-> 2, Connections |-> 10,
     Duration |-> "10s", RequestRate |-> 500]

\* the zero value of each endpointQuery field
ZeroQuery ==
    [Threads |-> 0, MaxThreads |-> 0, Connections |-> 0,
     Duration |-> "", RequestRate |-> 0]

NoMetrics == "none"

\* a decoder that starts from the zero struct and defaults the zero fields
DecodeIntoByValue(temp, obj, keys) ==
    LET zeroed == [f \in DOMAIN temp |->
                      IF \E key \in keys : FieldOf[key] = f THEN obj[CHOOSE key \in keys : FieldOf[key] = f]
                      ELSE ZeroQuery[f]]
    IN  [f \in DOMAIN temp |-> IF zeroed[f] = ZeroQuery[f] THEN temp[f] ELSE zeroed[f]]

\* json.Unmarshal(b, temp) / node.Decode(temp) on the query_parameters
\* object: every key of the input overwrites its field of temp, the other
\* fields of temp are left as they are
RECURSIVE DecodeInto(_, _, _)
DecodeInto(temp, obj, keys) ==
    IF keys = {} THEN temp
    ELSE LET key == CHOOSE x \in keys : TRUE
         IN  DecodeInto([temp EXCEPT ![FieldOf[key]] = obj[key]], obj, keys \ {key})

\* endpointDetails.UnmarshalJSON; raw is [url, q], q the query_parameters
\* object of the record (a function on the keys it holds)
UnmarshalJSON(raw) ==
    [Target  |-> [URL |-> raw.url],
     Query   |-> DecodeInto(DefaultQuery, raw.q, DOMAIN raw.q \cap QueryKeys),
     Metrics |-> NoMetrics]

\* endpointDetails.UnmarshalYAML
UnmarshalYAML(raw) ==
    [Target  |-> [URL |-> raw.url],
     Query   |-> DecodeInto(DefaultQuery, raw.q, DOMAIN raw.q \cap QueryKeys),
     Metrics |-> NoMetrics]

\* ------------------------------------------------ inputs of one invocation
Only(key, v) == [x \in {key} |-> v]

\* query_parameters objects of the records given to main
MainQueries == {Only("duration", "500ms"), Only("duration", "x")}

\* what a file or an inline string can hold: an endpoint list of up to
\* MaxEndpoints records (record n has URL n), or text that does not parse
Documents ==
    UNION {{[n \in 1..len |-> [url |-> n, q |-> qs[n]]] :
                qs \in [1..len -> MainQueries]} : len \in 0..MaxEndpoints}

NoSettings == [Url |-> "", Authkey |-> "", Source |-> ""]
SomeSettings == [Url |-> "https://hec", Authkey |-> "Splunk key", Source |-> "rtapi"]

\* the arguments queryAPI gives the engine; duration in milliseconds
NoArguments == [Freq |-> 0, duration |-> 0, workers |-> 0, maxWorkers |-> 0,
                connections |-> 0]

\* --------------------------------------------------------------------- Init
MainIdle ==
    /\ flags = [file |-> "unset", data |-> "unset", output |-> "unset",
                print |-> "unset", json |-> "unset", splunk |-> "unset",
                quiet |-> "unset"]
    /\ pc = "idle"

MainFresh ==
    /\ endpointList = <<>>
    /\ splunkSettings = NoSettings
    /\ sum = 0
    /\ i = 1
    /\ k = 1
    /\ exit = "none"
    /\ cause = "none"
    /\ runLog = <<>>
    /\ running = {}
    /\ engineFailed = {}
    /\ emitLog = <<>>
    /\ sent = <<>>
    /\ ioFailure = "none"
    /\ parsed = {}
    /\ tpc = "off"
    /\ barTotal = 0
    /\ barCurrent = 0

ResolveIdle ==
    /\ rpc = "idle"
    /\ rawRecord = [url |-> 1, q |-> <<>>]
    /\ encoding = "json"
    /\ resolved = UnmarshalJSON([url |-> 1, q |-> <<>>])
    /\ handed = NoArguments

GraphIdle ==
    /\ gpc = "idle"
    /\ report = <<>>
    /\ stringArray = <<>>
    /\ points = <<>>
    /\ j = 1
    /\ written = {}

Init ==
    /\ flags \in Invocations
    /\ pc = "start"
    /\ MainFresh
    /\ ResolveIdle
    /\ GraphIdle

\* ------------------------------------------------------------ termination
Die(how, why) ==
    /\ pc' = "exited"
    /\ exit' = how
    /\ cause' = why

Alive == pc \notin {"idle", "exited"}

\* ------------------------------------------------------------------- main
\* main, lines 110-115: the input source and output sink tests
CheckInput ==
    /\ pc = "start"
    /\ IF ~IsSet("file") /\ ~IsSet("data")
         THEN Die("fatal", "NoData")
       ELSE IF IsSet("file") /\ IsSet("data")
         THEN Die("fatal", "BothSources")
       ELSE IF ~IsSet("output") /\ ~Bool("print") /\ ~Bool("json") /\ String("splunk") = ""
         THEN Die("fatal", "NoOutput")
       ELSE pc' = "parse" /\ UNCHANGED <<exit, cause>>
    /\ UNCHANGED <<flags, endpointList, splunkSettings, sum, i, k, runLog, running,
                   engineFailed, emitLog, sent, ioFailure>>
    /\ UNCHANGED parsed
    /\ UNCHANGED <<tickerVars, resolveVars, graphVars>>

\* parseEndpointsJSON: os.Open, ioutil.ReadAll, json.Unmarshal
parseEndpointsJSON ==
    \/ Die("fatal", "OpenError") /\ UNCHANGED endpointList
    \/ Die("panic", "ParseError") /\ UNCHANGED endpointList
    \/ \E doc \in Documents :
          /\ endpointList' = [n \in 1..Len(doc) |-> UnmarshalJSON(doc[n])]
          /\ pc' = "splunk"
          /\ UNCHANGED <<exit, cause>>

\* parseEndpointsYAML: os.Open, ioutil.ReadAll, yaml.Unmarshal
parseEndpointsYAML ==
    \/ Die("fatal", "OpenError") /\ UNCHANGED endpointList
    \/ Die("panic", "ParseError") /\ UNCHANGED endpointList
    \/ \E doc \in Documents :
          /\ endpointList' = [n \in 1..Len(doc) |-> UnmarshalYAML(doc[n])]
          /\ pc' = "splunk"
          /\ UNCHANGED <<exit, cause>>

\* parseJSONString: json.Unmarshal of the inline string
parseJSONString ==
    \/ Die("panic", "ParseError") /\ UNCHANGED endpointList
    \/ \E doc \in Documents :
          /\ endpointList' = [n \in 1..Len(doc) |-> UnmarshalJSON(doc[n])]
          /\ pc' = "splunk"
          /\ UNCHANGED <<exit, cause>>

\* main, lines 116-124: the parser is chosen by the extension of the file;
\* with any other extension endpointList stays the nil slice
ParseInput ==
    /\ pc = "parse"
    /\ IF IsSet("file")
         THEN IF Ext(String("file")) = ".json"
                THEN parseEndpointsJSON
              ELSE IF Ext(String("file")) = ".yml" \/ Ext(String("file")) = ".yaml"
                THEN parseEndpointsYAML
              ELSE pc' = "splunk" /\ UNCHANGED <<endpointList, exit, cause>>
       ELSE parseJSONString
    /\ parsed' = IF IsSet("file")
                  THEN IF Ext(String("file")) \in {".json", ".yml", ".yaml"}
                         THEN parsed \cup {"file"}
                       ELSE parsed
                ELSE parsed \cup {"data"}
    /\ UNCHANGED <<flags, splunkSettings, sum, i, k, runLog, running,
                   engineFailed, emitLog, sent, ioFailure>>
    /\ UNCHANGED <<tickerVars, resolveVars, graphVars>>

\* parseSplunkSettingsJSON / parseSplunkSettingsYAML
parseSplunkSettings ==
    \/ Die("fatal", "OpenError") /\ UNCHANGED splunkSettings
    \/ Die("panic", "SettingsParseError") /\ UNCHANGED splunkSettings
    \/ /\ splunkSettings' = SomeSettings
       /\ pc' = "sum"
       /\ UNCHANGED <<exit, cause>>

\* main, lines 126-133
ParseSplunk ==
    /\ pc = "splunk"
    /\ IF IsSet("splunk") /\ Ext(String("splunk")) \in {".json", ".yml", ".yaml"}
         THEN parseSplunkSettings
       ELSE pc' = "sum" /\ UNCHANGED <<splunkSettings, exit, cause>>
    /\ parsed' = IF IsSet("splunk") /\ Ext(String("splunk")) \in {".json", ".yml", ".yaml"}
                  THEN parsed \cup {"splunk"}
                ELSE parsed
    /\ UNCHANGED <<flags, endpointList, sum, i, k, runLog, running,
                   engineFailed, emitLog, sent, ioFailure>>
    /\ UNCHANGED <<tickerVars, resolveVars, graphVars>>

\* the sum of the first n durations, in milliseconds
RECURSIVE SumOf(_, _)
SumOf(list, n) ==
    IF n = 0 THEN 0
    ELSE SumOf(list, n - 1) + ParseDuration(list[n].Query.Duration).ms

\* a duration loop that skips the strings it cannot parse
SumDurationsLenient ==
    /\ pc = "sum"
    /\ sum' = SumOf(endpointList, Len(endpointList))
    /\ pc' = "progress"
    /\ UNCHANGED <<exit, cause>>
    /\ UNCHANGED <<flags, endpointList, splunkSettings, i, k, runLog, running,
                   engineFailed, emitLog, sent, ioFailure>>
    /\ UNCHANGED parsed
    /\ UNCHANGED <<tickerVars, resolveVars, graphVars>>

\* main, lines 136-143: every duration is parsed before any run
SumDurations ==
    /\ pc = "sum"
    /\ IF \E n \in 1..Len(endpointList) : ParseDuration(endpointList[n].Query.Duration).err
         THEN LET bad == CHOOSE n \in 1..Len(endpointList) :
                            /\ ParseDuration(endpointList[n].Query.Duration).err
                            /\ \A m \in 1..(n - 1) :
                                  ~ParseDuration(endpointList[m].Query.Duration).err
              IN  /\ sum' = SumOf(endpointList, bad - 1)
                  /\ Die("fatal", "BadDuration")
       ELSE /\ sum' = SumOf(endpointList, Len(endpointList))
            /\ pc' = "progress"
            /\ UNCHANGED <<exit, cause>>
    /\ UNCHANGED <<flags, endpointList, splunkSettings, i, k, runLog, running,
                   engineFailed, emitLog, sent, ioFailure>>
    /\ UNCHANGED parsed
    /\ UNCHANGED <<tickerVars, resolveVars, graphVars>>

\* a run loop that leaves one endpoint early
AfterRunOffByOne(next) == IF next >= Len(endpointList) THEN "print" ELSE "run"

\* the head of `for i := range endpointList` (line 150)
AfterRun(next) == IF next > Len(endpointList) THEN "print" ELSE "run"

\* main, lines 145-147: go showProgressBar(int(sum))
StartProgress ==
    /\ pc = "progress"
    /\ IF ~IsSet("quiet")
         THEN tpc' = "start" /\ barTotal' = IntSeconds(sum)
       ELSE UNCHANGED <<tpc, barTotal>>
    /\ pc' = AfterRun(1)
    /\ UNCHANGED barCurrent
    /\ UNCHANGED <<flags, endpointList, splunkSettings, sum, i, k, exit, cause,
                   runLog, running, engineFailed, emitLog, sent, ioFailure>>
    /\ UNCHANGED parsed
    /\ UNCHANGED <<resolveVars, graphVars>>

\* queryAPI, lines 305-328: the arguments are built, the attack starts
RunStart ==
    /\ pc = "run"
    /\ IF ParseDuration(endpointList[i].Query.Duration).err
         THEN Die("fatal", "BadDuration") /\ UNCHANGED <<runLog, running>>
       ELSE /\ runLog' = Append(runLog, endpointList[i].Target.URL)
            /\ running' = running \cup {i}
            /\ pc' = "attack"
            /\ UNCHANGED <<exit, cause>>
    /\ UNCHANGED <<flags, endpointList, splunkSettings, sum, i, k,
                   engineFailed, emitLog, sent, ioFailure>>
    /\ UNCHANGED parsed
    /\ UNCHANGED <<tickerVars, resolveVars, graphVars>>

\* a run whose result is dropped
RunReturnDropped ==
    /\ pc = "attack"
    /\ running' = running \ {i}
    /\ i' = i + 1
    /\ pc' = AfterRun(i + 1)
    /\ UNCHANGED <<flags, endpointList, splunkSettings, sum, k, exit, cause, runLog,
                   engineFailed, emitLog, sent, ioFailure>>
    /\ UNCHANGED parsed
    /\ UNCHANGED <<tickerVars, resolveVars, graphVars>>

\* a run that ends the process when the engine delivered no request
RunReturnFatal ==
    /\ pc = "attack"
    /\ \E outcome \in {"ok", "errors"} :
          /\ running' = running \ {i}
          /\ engineFailed' = IF outcome = "errors" THEN engineFailed \cup {i}
                             ELSE engineFailed
          /\ IF outcome = "errors"
               THEN Die("fatal", "EngineError") /\ UNCHANGED <<endpointList, i>>
             ELSE /\ endpointList' = [endpointList EXCEPT ![i].Metrics = outcome]
                  /\ i' = i + 1
                  /\ pc' = AfterRun(i + 1)
                  /\ UNCHANGED <<exit, cause>>
    /\ UNCHANGED <<flags, splunkSettings, sum, k, runLog, emitLog, sent, ioFailure>>
    /\ UNCHANGED parsed
    /\ UNCHANGED <<tickerVars, resolveVars, graphVars>>

\* queryAPI, lines 328-332, and the assignment of line 151: the results of
\* the attack are folded into the Metrics; when the engine cannot deliver
\* the requests (the target does not resolve) every result carries an error
\* and the Metrics record the errors
RunReturn ==
    /\ pc = "attack"
    /\ \E outcome \in {"ok", "errors"} :
          /\ endpointList' = [endpointList EXCEPT ![i].Metrics = outcome]
          /\ engineFailed' = IF outcome = "errors" THEN engineFailed \cup {i}
                             ELSE engineFailed
    /\ running' = running \ {i}
    /\ i' = i + 1
    /\ pc' = AfterRun(i + 1)
    /\ UNCHANGED <<flags, splunkSettings, sum, k, exit, cause, runLog,
                   emitLog, sent, ioFailure>>
    /\ UNCHANGED parsed
    /\ UNCHANGED <<tickerVars, resolveVars, graphVars>>

\* ---------------------------------------------------------- Report Emitters
\* main, lines 154-156, and printText
PrintText ==
    /\ pc = "print"
    /\ emitLog' = IF Bool("print") THEN Append(emitLog, "text") ELSE emitLog
    /\ pc' = "pdf"
    /\ UNCHANGED <<flags, endpointList, splunkSettings, sum, i, k, exit, cause,
                   runLog, running, engineFailed, sent, ioFailure>>
    /\ UNCHANGED parsed
    /\ UNCHANGED <<tickerVars, resolveVars, graphVars>>

\* main, lines 158-160, and createPDF: an embedded resource may be missing
\* (box.Find, log.Fatal) and the file may not be writable
\* (pdf.OutputFileAndClose, log.Fatal)
CreatePDF ==
    /\ pc = "pdf"
    /\ IF IsSet("output")
         THEN /\ emitLog' = Append(emitLog, "pdf")
              /\ \/ pc' = "json" /\ UNCHANGED <<exit, cause, ioFailure>>
                 \/ Die("fatal", "ResourceError") /\ UNCHANGED ioFailure
                 \/ Die("fatal", "WriteError") /\ ioFailure' = "pdfWrite"
       ELSE pc' = "json" /\ UNCHANGED <<emitLog, exit, cause, ioFailure>>
    /\ UNCHANGED <<flags, endpointList, splunkSettings, sum, i, k,
                   runLog, running, engineFailed, sent>>
    /\ UNCHANGED parsed
    /\ UNCHANGED <<tickerVars, resolveVars, graphVars>>

\* main, lines 162-164, and printJson
PrintJson ==
    /\ pc = "json"
    /\ emitLog' = IF IsSet("json") THEN Append(emitLog, "json") ELSE emitLog
    /\ pc' = "forward"
    /\ UNCHANGED <<flags, endpointList, splunkSettings, sum, i, k, exit, cause,
                   runLog, running, engineFailed, sent, ioFailure>>
    /\ UNCHANGED parsed
    /\ UNCHANGED <<tickerVars, resolveVars, graphVars>>

\* main, lines 166-168: the call of sendJsonToSplunk
StartForward ==
    /\ pc = "forward"
    /\ IF IsSet("splunk")
         THEN emitLog' = Append(emitLog, "forward") /\ pc' = "send"
       ELSE pc' = "return" /\ UNCHANGED emitLog
    /\ UNCHANGED <<flags, endpointList, splunkSettings, sum, i, k, exit, cause,
                   runLog, running, engineFailed, sent, ioFailure>>
    /\ UNCHANGED parsed
    /\ UNCHANGED <<tickerVars, resolveVars, graphVars>>

\* what client.Do and the read of the response can give for one event; with
\* no URL in the settings the request cannot leave
Responses ==
    IF splunkSettings.Url = "" THEN {"transportErr"}
    ELSE {"transportErr", "2xx", "non2xx", "readErr"}

\* sendJsonToSplunk, one turn of the loop (lines 364-397): os.Hostname,
\* the POST, the read of the response body.  The status code of the
\* response is not looked at.
SendEvent ==
    /\ pc = "send"
    /\ IF k > Len(endpointList)
         THEN pc' = "return" /\ UNCHANGED <<k, sent, exit, cause, ioFailure>>
       ELSE \/ Die("panic", "HostnameError") /\ UNCHANGED <<k, sent, ioFailure>>
            \/ \E response \in Responses :
                  CASE response = "transportErr" ->
                         /\ Die("panic", "TransportError")
                         /\ ioFailure' = "forwardSend"
                         /\ UNCHANGED <<k, sent>>
                    [] response = "readErr" ->
                         /\ sent' = Append(sent, [idx |-> k, status |-> "unread"])
                         /\ ioFailure' = "forwardRead"
                         /\ pc' = "return"
                         /\ UNCHANGED <<k, exit, cause>>
                    [] OTHER ->
                         /\ sent' = Append(sent, [idx |-> k, status |-> response])
                         /\ k' = k + 1
                         /\ UNCHANGED <<pc, exit, cause, ioFailure>>
    /\ UNCHANGED <<flags, endpointList, splunkSettings, sum, i,
                   runLog, running, engineFailed, emitLog>>
    /\ UNCHANGED parsed
    /\ UNCHANGED <<tickerVars, resolveVars, graphVars>>

\* a return that joins the progress goroutine first
ReturnAfterProgress ==
    /\ pc = "return"
    /\ tpc \in {"off", "done"}
    /\ Die("ok", "none")
    /\ UNCHANGED <<flags, endpointList, splunkSettings, sum, i, k,
                   runLog, running, engineFailed, emitLog, sent, ioFailure>>
    /\ UNCHANGED parsed
    /\ UNCHANGED <<tickerVars, resolveVars, graphVars>>

\* main, lines 169-175: return nil, app.Run gives no error, the process ends
Return ==
    /\ pc = "return"
    /\ Die("ok", "none")
    /\ UNCHANGED <<flags, endpointList, splunkSettings, sum, i, k,
                   runLog, running, engineFailed, emitLog, sent, ioFailure>>
    /\ UNCHANGED parsed
    /\ UNCHANGED <<tickerVars, resolveVars, graphVars>>

\* ------------------------------------------------------------ progress bar
\* showProgressBar, lines 532-534: barTotal holds the argument until
\* uiprogress.AddBar(sum * 10) makes it the total of the bar
ProgressBegin ==
    /\ Alive
    /\ tpc = "start"
    /\ barTotal' = barTotal * TicksPerSecond
    /\ tpc' = "loop"
    /\ UNCHANGED <<barCurrent, mainVars, resolveVars, graphVars>>

\* showProgressBar, lines 535-537: Incr gives true, the goroutine sleeps
ProgressIncr ==
    /\ Alive
    /\ tpc = "loop"
    /\ barCurrent + 1 <= barTotal
    /\ barCurrent' = barCurrent + 1
    /\ UNCHANGED <<tpc, barTotal, mainVars, resolveVars, graphVars>>

\* showProgressBar, line 535: Incr gives false, the goroutine ends
ProgressEnd ==
    /\ Alive
    /\ tpc = "loop"
    /\ barCurrent + 1 > barTotal
    /\ tpc' = "done"
    /\ UNCHANGED <<barTotal, barCurrent, mainVars, resolveVars, graphVars>>

\* -------------------------------------------------------------------- Spec
MainNext ==
    \/ CheckInput
    \/ ParseInput
    \/ ParseSplunk
    \/ SumDurations
    \/ StartProgress
    \/ RunStart
    \/ RunReturn
    \/ PrintText
    \/ CreatePDF
    \/ PrintJson
    \/ StartForward
    \/ SendEvent
    \/ Return

TickerNext ==
    \/ ProgressBegin
    \/ ProgressIncr
    \/ ProgressEnd

Next ==
    \/ CheckInput
    \/ ParseInput
    \/ ParseSplunk
    \/ SumDurations
    \/ StartProgress
    \/ RunStart
    \/ RunReturn
    \/ PrintText
    \/ CreatePDF
    \/ PrintJson
    \/ StartForward
    \/ SendEvent
    \/ Return
    \/ ProgressBegin
    \/ ProgressIncr
    \/ ProgressEnd

Spec == Init /\ [][Next]_vars

\* ===================================================== properties of Spec
Attached(n) == endpointList[n].Metrics # NoMetrics

\* main is past the run loop (or ended past it)
PastRuns ==
    \/ pc \in {"print", "pdf", "json", "forward", "send", "return"}
    \/ pc = "exited" /\ (exit = "ok" \/ cause \in {"ResourceError", "WriteError",
                                                  "HostnameError", "TransportError"})

\* C1: queryAPI is invoked once per endpoint, in input order; run n has
\* returned and its Metrics are stored at position n before run n+1 starts,
\* no two runs overlap, the list keeps the input order, and past the loop
\* there have been exactly Len(endpointList) runs.
C1_SequentialRuns ==
    /\ Cardinality(running) <= 1
    /\ Len(runLog) <= Len(endpointList)
    /\ \A n \in 1..Len(endpointList) : endpointList[n].Target.URL = n
    /\ \A n \in 1..Len(runLog) :
          /\ runLog[n] = endpointList[n].Target.URL
          /\ n < Len(runLog) => Attached(n) /\ n \notin running
    /\ \A n \in 1..Len(endpointList) : Attached(n) => n <= Len(runLog) /\ n \notin running
    /\ PastRuns => /\ Len(runLog) = Len(endpointList)
                   /\ running = {}
                   /\ \A n \in 1..Len(endpointList) : Attached(n)

C1_Witness ==
    /\ pc = "return"
    /\ Len(endpointList) >= 2
    /\ runLog = [n \in 1..Len(endpointList) |-> n]
    /\ \A n \in 1..Len(endpointList) : Attached(n)

ConfigErrors == {"NoData", "BothSources", "NoOutput", "ParseError", "BadDuration"}

\* C2: an invocation that ends with a configuration error (no input source,
\* both sources, no output sink, input that does not parse, an invalid
\* duration at any position) has started no run and sent no forwarding POST.
C2_ConfigErrorBeforeNetwork ==
    (pc = "exited" /\ cause \in ConfigErrors) =>
        /\ runLog = <<>>
        /\ running = {}
        /\ sent = <<>>
        /\ exit \in {"fatal", "panic"}

C2_Witness ==
    /\ pc = "exited"
    /\ cause = "BadDuration"
    /\ Len(endpointList) >= 2
    /\ ~ParseDuration(endpointList[1].Query.Duration).err
    /\ ParseDuration(endpointList[2].Query.Duration).err
    /\ runLog = <<>>

\* C4: once the sink answered the event of endpoint a with a non-2xx status,
\* no event of a later endpoint is sent.
C4_AbortAfterNon2xx ==
    \A a \in 1..Len(sent) :
        sent[a].status = "non2xx" => \A b \in 1..Len(sent) : sent[b].idx <= sent[a].idx

Rank(emitter) ==
    CASE emitter = "text"    -> 1
      [] emitter = "pdf"     -> 2
      [] emitter = "json"    -> 3
      [] emitter = "forward" -> 4

\* C5: no emitter starts before every endpoint has its Metrics, and the
\* emitters of one invocation start in the order text, PDF, JSON, forward.
C5_EmittersAfterRunsInOrder ==
    /\ emitLog # <<>> =>
          /\ running = {}
          /\ \A n \in 1..Len(endpointList) : Attached(n)
    /\ \A a, b \in 1..Len(emitLog) : a < b => Rank(emitLog[a]) < Rank(emitLog[b])

C5_Witness ==
    /\ emitLog = <<"text", "pdf", "json", "forward">>
    /\ Len(endpointList) >= 2
    /\ \A n \in 1..Len(endpointList) : Attached(n)

\* C6: an invocation that met a network I/O failure while forwarding (send
\* or read of the response) or a file I/O failure while writing the PDF
\* never ends with the normal exit.
C6_IOFailureIsFatal ==
    (pc = "exited" /\ ioFailure # "none") => exit \in {"fatal", "panic"}

C9_ProgressCosmetic ==
    /\ Alive => ENABLED MainNext
    /\ pc = "exited" => ~ENABLED TickerNext
    /\ tpc \in {"loop", "done"} => barTotal = IntSeconds(sum) * TicksPerSecond
    /\ barCurrent >= 0
    /\ barCurrent <= (IF tpc \in {"loop", "done"} /\ barTotal > 0 THEN barTotal ELSE 0)
    /\ tpc = "done" => barCurrent = (IF barTotal > 0 THEN barTotal ELSE 0)

C9_Witness ==
    /\ exit = "ok"
    /\ tpc = "loop"
    /\ barCurrent > 0
    /\ barCurrent < barTotal

C9_WitnessNoTicks ==
    /\ exit = "ok"
    /\ tpc = "done"
    /\ barTotal = 0
    /\ Len(runLog) = 1

\* ============================================================ SpecResolve
\* one endpoint input record, every subset of the query_parameters keys
NumberValues == {0, 3}
DurationValues == {"", "0s", "1s", "-1s", "x"}

RawQueries ==
    UNION {{[key \in keys |-> IF key = "duration" THEN d ELSE nq[key]] :
                nq \in [keys \ {"duration"} -> NumberValues], d \in DurationValues} :
           keys \in SUBSET QueryKeys}

InitResolve ==
    /\ MainIdle
    /\ MainFresh
    /\ GraphIdle
    /\ rpc = "raw"
    /\ rawRecord \in {[url |-> 1, q |-> q] : q \in RawQueries}
    /\ encoding \in {"json", "yaml"}
    /\ resolved = [Target |-> [URL |-> 0], Query |-> ZeroQuery, Metrics |-> NoMetrics]
    /\ handed = NoArguments

\* json.Unmarshal of the record: endpointDetails.UnmarshalJSON
DecodeJSON ==
    /\ rpc = "raw"
    /\ encoding = "json"
    /\ resolved' = UnmarshalJSON(rawRecord)
    /\ rpc' = "decoded"
    /\ UNCHANGED <<rawRecord, encoding, handed, mainVars, tickerVars, graphVars>>

\* yaml.Unmarshal of the record: endpointDetails.UnmarshalYAML
DecodeYAML ==
    /\ rpc = "raw"
    /\ encoding = "yaml"
    /\ resolved' = UnmarshalYAML(rawRecord)
    /\ rpc' = "decoded"
    /\ UNCHANGED <<rawRecord, encoding, handed, mainVars, tickerVars, graphVars>>

\* main, lines 137-142, for this record: only a parse error stops the run
CheckDuration ==
    /\ rpc = "decoded"
    /\ rpc' = IF ParseDuration(resolved.Query.Duration).err THEN "rejected" ELSE "checked"
    /\ UNCHANGED <<rawRecord, encoding, resolved, handed, mainVars, tickerVars, graphVars>>

\* queryAPI, lines 306-326: rate, duration, workers, maxWorkers, connections
\* are taken from the record as they are
HandOver ==
    /\ rpc = "checked"
    /\ handed' = [Freq        |-> resolved.Query.RequestRate,
                  duration    |-> ParseDuration(resolved.Query.Duration).ms,
                  workers     |-> resolved.Query.Threads,
                  maxWorkers  |-> resolved.Query.MaxThreads,
                  connections |-> resolved.Query.Connections]
    /\ rpc' = "handed"
    /\ UNCHANGED <<rawRecord, encoding, resolved, mainVars, tickerVars, graphVars>>

NextResolve ==
    \/ DecodeJSON
    \/ DecodeYAML
    \/ CheckDuration
    \/ HandOver

SpecResolve == InitResolve /\ [][NextResolve]_vars

\* the defaults of the data model: threads 2, max_threads 2, connections
\* 10, duration "10s", request_rate 500
StatedDefault(key) ==
    CASE key = "threads"      -> 2
      [] key = "max_threads"  -> 2
      [] key = "connections"  -> 10
      [] key = "duration"     -> "10s"
      [] key = "request_rate" -> 500

\* C3: whatever subset of the five query_parameters keys the record omits,
\* the resolved EndpointSpec holds the default in each omitted field and the
\* input value (an explicit zero included) in each present one, under both
\* encodings.
C3_DefaultsByPresence ==
    rpc # "raw" =>
        \A key \in QueryKeys :
            IF key \in DOMAIN rawRecord.q
              THEN resolved.Query[FieldOf[key]] = rawRecord.q[key]
            ELSE resolved.Query[FieldOf[key]] = StatedDefault(key)

C3_Witness ==
    /\ rpc = "decoded"
    /\ encoding = "yaml"
    /\ DOMAIN rawRecord.q = {"threads", "request_rate"}
    /\ rawRecord.q["threads"] = 0
    /\ resolved.Query.Threads = 0
    /\ resolved.Query.Duration = "10s"
    /\ resolved.Query.MaxThreads = 2

\* C7: every EndpointSpec handed to queryAPI has threads <= max_threads and
\* a duration that parses to a strictly positive span.
C7_HandedSpecValid ==
    rpc = "handed" =>
        /\ resolved.Query.Threads <= resolved.Query.MaxThreads
        /\ handed.workers <= handed.maxWorkers
        /\ ~ParseDuration(resolved.Query.Duration).err
        /\ handed.duration > 0

\* ============================================================== SpecGraph
\* the text the HDR histogram plot reporter writes: a header line and the
\* rows, every line ended by "\n", the fields of a line padded with spaces.
\* A text is a sequence of tokens: a word, " " or "\n".
Words == <<"1", "2", "3", "4", "5">>

\* strconv.ParseFloat over the words of the model
ParseFloat(word) ==
    CASE word = "1" -> [err |-> FALSE, value |-> 1]
      [] word = "2" -> [err |-> FALSE, value |-> 2]
      [] word = "3" -> [err |-> FALSE, value |-> 3]
      [] word = "4" -> [err |-> FALSE, value |-> 4]
      [] word = "5" -> [err |-> FALSE, value |-> 5]
      [] OTHER      -> [err |-> TRUE,  value |-> 0]

\* one line of n fields
RECURSIVE Line(_)
Line(n) ==
    IF n = 0 THEN <<"\n">>
    ELSE IF n = 1 THEN <<Words[1], "\n">>
    ELSE SubSeq(Line(n - 1), 1, Len(Line(n - 1)) - 1) \o <<" ", " ", Words[n], "\n">>

Header == <<"Value(ms)", " ", "Percentile", " ", "TotalCount", " ",
            "1/(1-Percentile)", "\n">>

\* the text of a report whose rows have the given numbers of fields
RECURSIVE Rows(_)
Rows(counts) ==
    IF counts = <<>> THEN <<>>
    ELSE Line(Head(counts)) \o Rows(Tail(counts))

FieldCounts == {0, 3, 4, 5}

Reports ==
    UNION {{Header \o Rows(counts) : counts \in [1..len -> FieldCounts]} :
           len \in 0..MaxRows}

\* strings.Split(text, "\n")
RECURSIVE Split(_, _)
Split(text, line) ==
    IF text = <<>> THEN <<line>>
    ELSE IF Head(text) = "\n" THEN <<line>> \o Split(Tail(text), <<>>)
    ELSE Split(Tail(text), Append(line, Head(text)))

\* strings.Fields(line)
RECURSIVE Fields(_)
Fields(line) ==
    IF line = <<>> THEN <<>>
    ELSE IF Head(line) = " " THEN Fields(Tail(line))
    ELSE <<Head(line)>> \o Fields(Tail(line))

ZeroXY == [X |-> 0, Y |-> 0]

InitGraph ==
    /\ MainIdle
    /\ MainFresh
    /\ ResolveIdle
    /\ gpc = "report"
    /\ report \in Reports
    /\ stringArray = <<>>
    /\ points = <<>>
    /\ j = 1
    /\ written = {}

\* createGraph, lines 545-550: the lines after the header, and a point
\* array with one slot fewer than there are such lines
SplitReport ==
    /\ gpc = "report"
    /\ stringArray' = Tail(Split(report, <<>>))
    /\ IF Len(stringArray') - 1 < 0
         THEN gpc' = "panic" /\ UNCHANGED points
       ELSE /\ points' = [n \in 1..(Len(stringArray') - 1) |-> ZeroXY]
            /\ gpc' = "rows"
    /\ UNCHANGED <<report, j, written, mainVars, tickerVars, resolveVars>>

\* createGraph, lines 551-565, one turn of the row loop (j counts from 1):
\* a line of 4 fields is parsed into its slot, any other line is passed over
ReadRow ==
    /\ gpc = "rows"
    /\ j <= Len(stringArray)
    /\ LET values == Fields(stringArray[j])
       IN  IF Len(values) = RowFields
             THEN IF ParseFloat(values[4]).err \/ ParseFloat(values[1]).err
                    THEN gpc' = "fatal" /\ UNCHANGED <<points, written>>
                  ELSE IF j > Len(points)
                    THEN gpc' = "panic" /\ UNCHANGED <<points, written>>
                  ELSE /\ points' = [points EXCEPT ![j] =
                                        [X |-> ParseFloat(values[4]).value,
                                         Y |-> ParseFloat(values[1]).value]]
                       /\ written' = written \cup {j}
                       /\ UNCHANGED gpc
           ELSE UNCHANGED <<gpc, points, written>>
    /\ j' = j + 1
    /\ UNCHANGED <<report, stringArray, mainVars, tickerVars, resolveVars>>

\* createGraph, lines 584-585: plotter.NewLinePoints(points[i]) takes every
\* slot of the array as a data point of the series
PlotSeries ==
    /\ gpc = "rows"
    /\ j > Len(stringArray)
    /\ gpc' = "plotted"
    /\ UNCHANGED <<report, stringArray, points, j, written, mainVars, tickerVars,
                   resolveVars>>

NextGraph ==
    \/ SplitReport
    \/ ReadRow
    \/ PlotSeries

SpecGraph == InitGraph /\ [][NextGraph]_vars

\* C10: a row whose field count is not 4 is skipped without aborting the
\* render: the row loop never indexes the point array out of bounds, and
\* the plotted series holds no data point for a skipped row (every point of
\* the series was written from a row of 4 fields).
C10_SkippedRowsLeaveNoPoint ==
    /\ gpc \notin {"panic", "fatal"}
    /\ gpc = "plotted" => \A n \in 1..Len(points) : n \in written

\* ================================================ sink selection (Spec)
\* the test of the "no output" branch of main (line 114), sink by sink
SinkSelected(emitter) ==
    CASE emitter = "text"    -> Bool("print")
      [] emitter = "pdf"     -> IsSet("output")
      [] emitter = "json"    -> Bool("json")
      [] emitter = "forward" -> String("splunk") # ""

\* C11: an emitter runs if and only if its sink is selected by the test of
\* the sink check: no emitter starts for a sink that test counts as not
\* selected (json given as false, splunk given as empty), every invocation
\* past the sink check that returns normally has run each selected emitter,
\* and so at least one.
C11_EmittersMatchSinkTest ==
    /\ \A n \in 1..Len(emitLog) : SinkSelected(emitLog[n])
    /\ exit = "ok" =>
          /\ emitLog # <<>>
          /\ \A emitter \in {"text", "pdf", "json", "forward"} :
                SinkSelected(emitter) => \E n \in 1..Len(emitLog) : emitLog[n] = emitter

\* ============================================ input files (Spec)
\* main has reached the run loop (or is past it)
ReachedRunLoop == pc \in {"run", "attack"} \/ PastRuns

\* C12: an invocation with a file source that reaches the run loop has
\* parsed that file (otherwise it stopped with an error); it never goes on
\* with the endpoint list left empty because of the extension of the file.
\* The same for the file of the forwarding-sink settings when the forward
\* emitter starts.
C12_FileSourceParsed ==
    /\ (ReachedRunLoop /\ IsSet("file")) => "file" \in parsed
    /\ (pc = "send" /\ String("splunk") # "") => "splunk" \in parsed

====
